---- MODULE Spec2Model ----
(***************************************************************************)
(* Work-claiming and archival state machine of Balchivist:                 *)
(*   src/modules/dumps.py    (BALMDumps, the main database dumps)          *)
(*   src/modules/wikidata.py (BALMWikidata, the Wikibase JSON dumps)       *)
(* Several worker processes (one per host) run execute() against one       *)
(* catalog table.  Every SQL statement is one atomic step; a worker may be *)
(* interleaved with the others between any two of its statements.          *)
(***************************************************************************)
EXTENDS Integers, Sequences, FiniteSets, TLC

\* ---------------------------------------------------------------- bounds
\* Number of execute() runs started in one behaviour, over all hosts.
MaxRuns == 2
\* Number of execute() runs of the sequential specification.
MaxSeqRuns == 6
\* Largest number of catalog rows with the same (wiki, dumpdate).
MaxRows == 3
\* Row limit of getStoredDumps: "LIMIT 30" in the source, scaled to the
\* two snapshot dates of the model.
StoredLimit == 1
\* Number of update runs that may have completed before the first state.
InitRuns == 2
\* Longest list of sub-job statuses read from a dumpruninfo.txt.
MaxStatuses == 3
\* execute() runs started when check drive loops race for archived items.
MaxRaceRuns == 3
\* execute() runs started in the scenario of a killed archive worker.
MaxCrashRuns == 3
\* execute() runs started while the origin and the local mirror change.
MaxMirrorRuns == 3
MaxArgsRuns == 3
MaxLoopRuns == 4
MaxPickRuns == 3

\* ---------------------------------------------------------------- universe
Hosts == {"h1", "h2"}
Wikis == {"w1"}
\* Snapshot dates, standing for YYYYMMDD tokens in calendar order.
Dates == {1, 2}
Keys == Wikis \X Dates
\* A directory entry of the origin that is not a date ("latest",
\* "dcatap.rdf"), and the keys a row of the table can have.
dcatap == 9
TableKeys == Keys \cup (Wikis \X {dcatap})
Families == {"dumps", "wikidata"}
Jobs == {"archive", "check", "update"}

NULL == "NULL"
\* Python's None for a wiki name and for a date.
NoWiki == "None"
NoDate == 0
NoItem == <<NoWiki, NoDate>>
\* Column value of a table that has no such column (wikidata has no progress).
NoColumn == "-"
\* A directory that does not exist.
NoDir == {"#absent"}

VARIABLES
    family,       \* the dataset family (module) all processes of the run use
    catalog,      \* catalog[k]: the rows of the family's table with key k
    iafiles,      \* iafiles[k]: files held by the Internet Archive item of k
    dumpdir,      \* dumpdir[k]: files of the local dump directory, or NoDir
    alldumps,     \* alldumps[w]: the snapshot directories the origin lists
    index,        \* index[k]: the files the origin lists for snapshot k
    liveprogress, \* liveprogress[k]: what the origin's dumpruninfo.txt says
    pc,           \* pc[h]: where the process on host h stands
    args,         \* args[h]: arguments of the current execute() call
    item,         \* item[h]: <<wiki, date>> the process dispatches on
    items,        \* items[h]: files still to be uploaded in archive()
    count,        \* count[h]: uploads that succeeded in archive()
    status,       \* status[h]: what the pipeline returned
    sent,         \* sent[h]: the uploadFile calls made, <<file, metadata?>>
    lists,        \* lists[h]: the lists update() read for the current wiki
    nruns,        \* execute() runs started so far
    cleared,      \* items whose claim was cleared by hand after a kill
    raw,          \* the sub-job statuses of a dumpruninfo.txt, in file order
    output        \* what getDumpProgress returned for raw

vars == <<family, catalog, iafiles, dumpdir, alldumps, index, liveprogress, pc,
          args, item, items, count, status, sent, lists, nruns, cleared, raw,
          output>>
envVars == <<family, alldumps, index, liveprogress, cleared, raw, output>>
archiveVars == <<items, count, sent>>

\* ---------------------------------------------------------------- helpers
RECURSIVE SumOver(_, _)
SumOver(S, f) ==
    IF S = {} THEN 0
    ELSE LET x == CHOOSE y \in S : TRUE IN f[x] + SumOver(S \ {x}, f)

\* sorted(): file names in the order Python sorts them.
FileOrder ==
    <<"dumpruninfo.txt", "f1", "f2", "md5sums.txt", "sha1sums.txt", "status.html">>

RECURSIVE SortedFrom(_, _)
SortedFrom(S, i) ==
    IF i > Len(FileOrder) THEN <<>>
    ELSE IF FileOrder[i] \in S THEN <<FileOrder[i]>> \o SortedFrom(S, i + 1)
    ELSE SortedFrom(S, i + 1)
Sorted(S) == SortedFrom(S, 1)

Range(s) == {s[i] : i \in DOMAIN s}
SelectNotIn(s, S) == SelectSeq(s, LAMBDA f : f \notin S)

\* ---------------------------------------------------------------- catalog store
\* The statements of balchivist.BALSqlDb the modules use.
Row(progress, can_archive, is_archived, is_checked, claimed_by) ==
    [progress |-> progress, can_archive |-> can_archive,
     is_archived |-> is_archived, is_checked |-> is_checked,
     claimed_by |-> claimed_by]

\* UPDATE <table> SET vals WHERE wiki = k[1] AND dumpdate = k[2]
SqlUpdate(cat, k, vals) ==
    [cat EXCEPT ![k] =
        [i \in DOMAIN @ |->
            [f \in DOMAIN @[i] |-> IF f \in DOMAIN vals THEN vals[f] ELSE @[i][f]]]]

\* INSERT INTO <table> ...
SqlInsert(cat, k, row) == [cat EXCEPT ![k] = Append(@, row)]

\* The keys with a row that satisfies conds.
SqlSelectKeys(cat, Conds(_)) ==
    {k \in DOMAIN cat : \E i \in DOMAIN cat[k] : Conds(cat[k][i])}

\* SELECT COUNT(*) ... WHERE conds
SqlCount(cat, Conds(_)) ==
    SumOver(DOMAIN cat, [k \in DOMAIN cat |->
        Cardinality({i \in DOMAIN cat[k] : Conds(cat[k][i])})])
\* ---------------------------------------------------------------- origin
\* self.additional: the additional files in each dump.
additional == {"dumpruninfo.txt", "status.html"}
\* The checksum files archive() looks for in the dump directory.
checksums == <<"md5sums.txt", "sha1sums.txt">>

\* The files the origin's index page lists for a snapshot.
IndexFiles(k) == index[k]

\* getDumpFiles (dumps): sorted(dumpfiles + self.additional);
\* getFiles (wikidata): the sorted links of the snapshot's directory.
getDumpFiles(k) ==
    IF family = "dumps" THEN Sorted(IndexFiles(k) \cup additional)
    ELSE Sorted(IndexFiles(k))

\* checkDumpDir: the directory exists and holds every file of filelist.
checkDumpDir(dir, filelist) ==
    IF dir = NoDir THEN FALSE
    ELSE \A i \in DOMAIN filelist : filelist[i] \in dir

\* conv.getDateFromWiki(date, archivedate=True) parses the date with
\* strptime and raises for anything that is not a YYYYMMDD token.
DateParses(date) == date \in Dates

\* getAllDumps (dumps): the directory entries that strptime accepts.
getAllDumps(wiki) == {d \in alldumps[wiki] : DateParses(d)}

\* getDumpDates (wikidata): every link of the wiki's directory.
getDumpDates(database) == alldumps[database]

\* ---------------------------------------------------------------- dump progress
\* The status values of dumpruninfo.txt; "new" stands for any value the
\* code does not know.
Statuses == {"failed", "in-progress", "waiting", "done", "skipped", "new"}
RunInfos == UNION {[1..n -> Statuses] : n \in 0..MaxStatuses}
NoOutput == [modules |-> "None", legacy |-> "None"]

\* A getDumpProgress that looks for failed sub-jobs after the loop only.
RECURSIVE LateFailureLoop(_, _, _, _, _)
LateFailureLoop(r, i, progress, done, failed) ==
    IF i > Len(r)
    THEN IF progress > 0 THEN "progress"
         ELSE IF failed > 0 THEN "error"
         ELSE IF done > 0 THEN "done" ELSE "unknown"
    ELSE IF r[i] = "failed"
    THEN LateFailureLoop(r, i + 1, progress, done, failed + 1)
    ELSE IF r[i] \in {"in-progress", "waiting"}
    THEN LateFailureLoop(r, i + 1, progress + 1, done, failed)
    ELSE IF r[i] \in {"done", "skipped"}
    THEN LateFailureLoop(r, i + 1, progress, done + 1, failed)
    ELSE "unknown"
getDumpProgressLateFailure(r) == LateFailureLoop(r, 1, 0, 0, 0)

\* A getDumpProgress that does not count skipped sub-jobs as done.
RECURSIVE SkippedUnknownLoop(_, _, _, _)
SkippedUnknownLoop(r, i, progress, done) ==
    IF i > Len(r)
    THEN IF progress > 0 THEN "progress"
         ELSE IF done > 0 THEN "done" ELSE "unknown"
    ELSE IF r[i] = "failed" THEN "error"
    ELSE IF r[i] \in {"in-progress", "waiting"}
    THEN SkippedUnknownLoop(r, i + 1, progress + 1, done)
    ELSE IF r[i] = "done"
    THEN SkippedUnknownLoop(r, i + 1, progress, done + 1)
    ELSE "unknown"
getDumpProgressSkippedUnknown(r) == SkippedUnknownLoop(r, 1, 0, 0)

\* BALMDumps.getDumpProgress: the loop over the statuses, then the verdict.
RECURSIVE ProgressLoop(_, _, _, _)
ProgressLoop(r, i, progress, done) ==
    IF i > Len(r)
    THEN IF progress > 0 THEN "progress"
         ELSE IF done > 0 THEN "done" ELSE "unknown"
    ELSE IF r[i] = "failed" THEN "error"
    ELSE IF r[i] \in {"in-progress", "waiting"}
    THEN ProgressLoop(r, i + 1, progress + 1, done)
    ELSE IF r[i] \in {"done", "skipped"}
    THEN ProgressLoop(r, i + 1, progress, done + 1)
    ELSE "unknown"
getDumpProgress(r) == ProgressLoop(r, 1, 0, 0)

\* BALDumps.getDumpProgress of the older src/dumps.py: a status it does not
\* know (skipped too) is passed over.
RECURSIVE LegacyProgressLoop(_, _, _, _)
LegacyProgressLoop(r, i, progress, done) ==
    IF i > Len(r)
    THEN IF progress > 0 THEN "progress"
         ELSE IF done > 0 THEN "done" ELSE "unknown"
    ELSE IF r[i] = "failed" THEN "error"
    ELSE IF r[i] \in {"in-progress", "waiting"}
    THEN LegacyProgressLoop(r, i + 1, progress + 1, done)
    ELSE IF r[i] = "done"
    THEN LegacyProgressLoop(r, i + 1, progress, done + 1)
    ELSE LegacyProgressLoop(r, i + 1, progress, done)
BALDumps_getDumpProgress(r) == LegacyProgressLoop(r, 1, 0, 0)

\* ---------------------------------------------------------------- catalog queries
\* getItemsLeft + getNumberOfItems: the WHERE clause of the count.
\* A count that also counts failed checks.
ItemsLeftCondsWithFailedChecks(job, row) ==
    /\ row.claimed_by = NULL
    /\ family = "dumps" => row.progress = "done"
    /\ IF job = "archive"
       THEN row.is_archived = "0" /\ row.can_archive = "1"
       ELSE row.is_archived = "1" /\ row.is_checked \in {"0", "2"}

ItemsLeftConds(job, row) ==
    /\ row.claimed_by = NULL
    /\ family = "dumps" => row.progress = "done"
    /\ IF job = "archive"
       THEN row.is_archived = "0" /\ row.can_archive = "1"
       ELSE row.is_archived = "1" /\ row.is_checked = "0"

getItemsLeft(cat, job) ==
    IF job \in {"archive", "check"}
    THEN SqlCount(cat, LAMBDA row : ItemsLeftConds(job, row))
    ELSE 0

\* A random select that does not look at can_archive.
RandomItemCondsAnyCanArchive(archived, row) ==
    /\ row.claimed_by = NULL
    /\ IF archived
       THEN row.is_archived = "1" /\ row.is_checked = "0"
       ELSE /\ family = "dumps" => row.progress = "done"
            /\ row.is_archived = "0"

\* getRandomItemSql: the WHERE clause of the random select.
RandomItemConds(archived, row) ==
    /\ row.claimed_by = NULL
    /\ IF archived
       THEN row.is_archived = "1" /\ row.is_checked = "0"
       ELSE /\ family = "dumps" => row.progress = "done"
            /\ row.is_archived = "0"
            /\ row.can_archive = "1"

\* getRandomItem: the items "ORDER BY RAND() LIMIT 1" can return; the
\* sentinel when the select returns nothing.
getRandomItem(cat, job) ==
    LET found == SqlSelectKeys(cat, LAMBDA row : RandomItemConds(job = "check", row))
    IN  IF found = {} THEN {NoItem} ELSE found

\* getStoredDumps: the dates of the newest StoredLimit rows of the wiki
\* that match the given columns ("all" matches every value).
StoredConds(row, progress, can_archive) ==
    /\ progress # "all" => row.progress = progress
    /\ can_archive # "all" => row.can_archive = can_archive

getStoredDumps(cat, wikidb, progress, can_archive) ==
    LET n == [d \in Dates |->
                Cardinality({i \in DOMAIN cat[<<wikidb, d>>] :
                    StoredConds(cat[<<wikidb, d>>][i], progress, can_archive)})]
    IN  {d \in Dates :
            /\ n[d] > 0
            /\ SumOver({e \in Dates : e > d}, n) < StoredLimit}

\* ---------------------------------------------------------------- catalog writes
\* An updateCanArchive that gives the item free as well.
updateCanArchiveReleasing(cat, k, can_archive) ==
    SqlUpdate(cat, k, [can_archive |-> can_archive, claimed_by |-> NULL])

updateCanArchive(cat, k, can_archive) ==
    SqlUpdate(cat, k, [can_archive |-> can_archive])

\* A mark that drops the rows of the item instead of updating them.
markArchivedByDelete(cat, k) == [cat EXCEPT ![k] = <<>>]

markArchived(cat, k) ==
    SqlUpdate(cat, k, [is_archived |-> "1", claimed_by |-> NULL])

markChecked(cat, k) ==
    SqlUpdate(cat, k, [is_checked |-> "1", claimed_by |-> NULL])

\* A failed-archive mark that leaves the claim in place.
markFailedArchiveKeepingClaim(cat, k) ==
    SqlUpdate(cat, k, [is_archived |-> "2"])

markFailedArchive(cat, k) ==
    SqlUpdate(cat, k, [is_archived |-> "2", claimed_by |-> NULL])

\* A failed-check mark that writes the archive flag.
markFailedCheckAsArchive(cat, k) ==
    SqlUpdate(cat, k, [is_archived |-> "2", claimed_by |-> NULL])

markFailedCheck(cat, k) ==
    SqlUpdate(cat, k, [is_checked |-> "2", claimed_by |-> NULL])

claimItem(cat, k, hostname) ==
    SqlUpdate(cat, k, [claimed_by |-> hostname])

updateProgress(cat, k, progress) ==
    SqlUpdate(cat, k, [progress |-> progress])

\* An addNewItem that inserts whatever it is given.
addNewItemUnparsed(cat, k, progress) ==
    SqlInsert(cat, k,
        Row(IF family = "dumps" THEN progress ELSE NoColumn, "0", "0", "0", NULL))

\* addNewItem: dumps stores the progress read from the origin; the
\* wikidata table has no progress column, and its addNewItem returns False
\* without an insert when the date does not parse.
addNewItem(cat, k, progress) ==
    IF family = "wikidata" /\ ~DateParses(k[2]) THEN cat
    ELSE SqlInsert(cat, k,
            Row(IF family = "dumps" THEN progress ELSE NoColumn,
                "0", "0", "0", NULL))
\* ---------------------------------------------------------------- pipelines
\* BALMDumps.archive up to the upload loop: what it returns at once
\* ("True" / "False") or the list it goes on to upload ("upload").
DumpsArchiveItems(k, resume, dir, ia) ==
    LET allfiles == getDumpFiles(k)
        missing == SelectNotIn(allfiles, ia)
        sums == SelectSeq(checksums, LAMBDA f : f \in dir)
    IN  IF ~checkDumpDir(dir, allfiles) THEN [ret |-> "False", items |-> <<>>]
        ELSE IF resume /\ missing = <<>> THEN [ret |-> "True", items |-> <<>>]
        ELSE [ret |-> "upload",
              items |-> (IF resume THEN missing ELSE allfiles) \o sums]

\* BALMWikidata.getFilesToUpload: only the "everything is uploaded" branch
\* has a return statement; every other path falls off the end (None).
getFilesToUpload(k, resume, ia) ==
    LET allfiles == getDumpFiles(k)
        missing == SelectNotIn(allfiles, ia)
    IN  IF resume /\ missing = <<>>
        THEN [none |-> FALSE, list |-> <<>>]
        ELSE [none |-> TRUE, list |-> <<>>]

\* A check that wants the two file sets equal.
checkEqual(k, ia) == Range(getDumpFiles(k)) = ia

\* BALArchiver.uploadFile when it succeeds: the backend item gains the file,
\* unless debug is set.
uploadFile(ia, k, dumpfile, debug) ==
    IF debug THEN ia ELSE [ia EXCEPT ![k] = @ \cup {dumpfile}]

\* check: every file of the origin's list is in the item's file list.
check(k, ia) == \A f \in Range(getDumpFiles(k)) : f \in ia

\* dispatch, after the pipeline returned: the mark* call it makes.
Mark(cat, job, k, st) ==
    IF job = "archive"
    THEN IF st = "True" THEN markArchived(cat, k) ELSE markFailedArchive(cat, k)
    ELSE IF st = "True" THEN markChecked(cat, k) ELSE markFailedCheck(cat, k)

\* ---------------------------------------------------------------- processes
NoArgs == [job |-> "archive", wiki |-> NoWiki, date |-> NoDate, resume |-> FALSE,
           path |-> FALSE, debug |-> FALSE]
NoLists == [db |-> 0, dumps |-> {}, stored |-> {}, inprogress |-> {},
            cannotarc |-> {}, failed |-> {}, canarc |-> {}]

\* The argument combinations the workers on the hosts start execute() with.
ArgsSet ==
    {[NoArgs EXCEPT !.job = j] : j \in Jobs}
    \cup {[NoArgs EXCEPT !.wiki = k[1], !.date = k[2], !.resume = r] :
            k \in Keys, r \in BOOLEAN}
    \cup {[NoArgs EXCEPT !.job = "check", !.wiki = k[1], !.date = k[2]] :
            k \in Keys}
    \cup {[NoArgs EXCEPT !.wiki = "w1"],
          [NoArgs EXCEPT !.job = "check", !.date = 1]}

\* The same and the runs an operator starts by hand: with --debug, and
\* with --path naming the local dump directory of the item.
AllArgsSet ==
    ArgsSet
    \cup {[NoArgs EXCEPT !.job = j, !.debug = TRUE] : j \in Jobs}
    \cup {[NoArgs EXCEPT !.job = j, !.wiki = "w1", !.date = 1, !.debug = TRUE] :
            j \in {"archive", "check"}}
    \cup {[NoArgs EXCEPT !.wiki = "w1", !.date = 1, !.resume = r, !.path = TRUE] :
            r \in BOOLEAN}

continuous(a) == a.wiki = NoWiki /\ a.date = NoDate

\* The locals of a process that returned or died.
Reset(h) ==
    /\ args' = [args EXCEPT ![h] = NoArgs]
    /\ item' = [item EXCEPT ![h] = NoItem]
    /\ items' = [items EXCEPT ![h] = <<>>]
    /\ count' = [count EXCEPT ![h] = 0]
    /\ status' = [status EXCEPT ![h] = "None"]
    /\ sent' = [sent EXCEPT ![h] = <<>>]
    /\ lists' = [lists EXCEPT ![h] = NoLists]

\* urllib.urlopen raises IOError when the origin cannot be reached: nothing
\* catches it, the process dies where it stands.
OriginError(h) ==
    /\ pc' = [pc EXCEPT ![h] = "ioerror"]
    /\ Reset(h)

\* execute(args): the branch on the arguments.
ExecuteUpTo(h, max, Args) ==
    /\ pc[h] \in {"idle", "raised", "ioerror", "killed"}
    /\ nruns < max
    /\ nruns' = nruns + 1
    /\ \E a \in Args :
        IF a.job = "update"
        THEN /\ pc' = [pc EXCEPT ![h] = "update"]
             /\ args' = [args EXCEPT ![h] = a]
             /\ item' = item
        ELSE IF continuous(a)
        THEN /\ pc' = [pc EXCEPT ![h] = "loop"]
             /\ args' = [args EXCEPT ![h] = a]
             /\ item' = item
        ELSE IF a.wiki = NoWiki \/ a.date = NoDate
        THEN \* "Error: ... was given but not the ...!", return False
             /\ pc' = [pc EXCEPT ![h] = "idle"]
             /\ args' = [args EXCEPT ![h] = NoArgs]
             /\ item' = item
        ELSE \* self.resume = args.dumpsresume; self.dispatch(...)
             /\ pc' = [pc EXCEPT ![h] = "claim"]
             /\ args' = [args EXCEPT ![h] = a]
             /\ item' = [item EXCEPT ![h] = <<a.wiki, a.date>>]
    /\ UNCHANGED <<catalog, iafiles, dumpdir, envVars, archiveVars, status, lists>>

Execute(h) == ExecuteUpTo(h, MaxRuns, ArgsSet)

\* while self.getItemsLeft(job=dumpsjob) > 0
ItemsLeft(h) ==
    /\ pc[h] = "loop"
    /\ IF getItemsLeft(catalog, args[h].job) > 0
       THEN /\ pc' = [pc EXCEPT ![h] = "pick"]
            /\ UNCHANGED <<args, item, archiveVars, status, lists>>
       ELSE /\ pc' = [pc EXCEPT ![h] = "idle"]
            /\ Reset(h)
    /\ UNCHANGED <<catalog, iafiles, dumpdir, envVars, nruns>>

\* itemdetails = self.getRandomItem(job=dumpsjob)
RandomItem(h) ==
    /\ pc[h] = "pick"
    /\ \E k \in getRandomItem(catalog, args[h].job) :
        item' = [item EXCEPT ![h] = k]
    /\ pc' = [pc EXCEPT ![h] = "claim"]
    /\ UNCHANGED <<catalog, iafiles, dumpdir, envVars, args, archiveVars, status,
                   lists, nruns>>

\* dispatch: self.claimItem(params=updatedetails) unless in debug mode;
\* getSqlConds, and archive() in debug mode, raise when the date does not
\* parse; check() in debug mode finds no file for such an item.
Claim(h) ==
    /\ pc[h] = "claim"
    /\ IF DateParses(item[h][2])
       THEN /\ catalog' = IF args[h].debug THEN catalog
                          ELSE claimItem(catalog, item[h], h)
            /\ pc' = [pc EXCEPT ![h] = args[h].job]
            /\ UNCHANGED <<args, item, archiveVars, status, lists>>
       ELSE IF args[h].debug /\ args[h].job = "check"
       THEN /\ status' = [status EXCEPT ![h] = "False"]
            /\ pc' = [pc EXCEPT ![h] = "mark"]
            /\ UNCHANGED <<catalog, args, item, archiveVars, lists>>
       ELSE /\ pc' = [pc EXCEPT ![h] = "raised"]
            /\ Reset(h)
            /\ UNCHANGED catalog
    /\ UNCHANGED <<iafiles, dumpdir, envVars, nruns>>

\* BALMDumps.archive, from its entry to the first upload; checkDumpDir
\* reads the origin's file list once the local directory is found.
DumpsArchive(h) ==
    /\ pc[h] = "archive"
    /\ family = "dumps"
    /\ \/ LET r == DumpsArchiveItems(item[h], args[h].resume, dumpdir[item[h]],
                                     iafiles[item[h]])
          IN  /\ IF r.ret = "upload" /\ r.items # <<>>
                 THEN /\ items' = [items EXCEPT ![h] = r.items]
                      /\ pc' = [pc EXCEPT ![h] = "upload"]
                      /\ UNCHANGED status
                 ELSE /\ status' = [status EXCEPT ![h] =
                                      IF r.ret = "False" THEN "False" ELSE "True"]
                      /\ pc' = [pc EXCEPT ![h] = "mark"]
                      /\ UNCHANGED items
              /\ count' = [count EXCEPT ![h] = 0]
              /\ sent' = [sent EXCEPT ![h] = <<>>]
              /\ UNCHANGED <<args, item, lists>>
       \/ /\ dumpdir[item[h]] # NoDir
          /\ OriginError(h)
    /\ UNCHANGED <<catalog, iafiles, dumpdir, envVars, nruns>>

\* The upload loop going on to the next file after a failed upload.
UploadContinuing(h) ==
    /\ pc[h] = "upload"
    /\ LET dumpfile == Head(items[h]) IN
        /\ sent' = [sent EXCEPT ![h] = Append(@, <<dumpfile, count[h] = 0>>)]
        /\ \E upload \in BOOLEAN :
            /\ iafiles' = IF upload
                          THEN uploadFile(iafiles, item[h], dumpfile, args[h].debug)
                          ELSE iafiles
            /\ count' = [count EXCEPT ![h] = IF upload THEN @ + 1 ELSE @]
            /\ items' = [items EXCEPT ![h] = Tail(@)]
            /\ IF Tail(items[h]) = <<>>
               THEN /\ status' = [status EXCEPT ![h] = "True"]
                    /\ pc' = [pc EXCEPT ![h] = "mark"]
               ELSE UNCHANGED <<status, pc>>
    /\ UNCHANGED <<catalog, dumpdir, envVars, args, item, lists, nruns>>

\* An upload loop that sends the metadata with every call.
UploadWithMetadata(h) ==
    /\ pc[h] = "upload"
    /\ LET dumpfile == Head(items[h]) IN
        /\ sent' = [sent EXCEPT ![h] = Append(@, <<dumpfile, TRUE>>)]
        /\ \E upload \in BOOLEAN :
            IF upload
            THEN /\ iafiles' = uploadFile(iafiles, item[h], dumpfile, args[h].debug)
                 /\ count' = [count EXCEPT ![h] = @ + 1]
                 /\ items' = [items EXCEPT ![h] = Tail(@)]
                 /\ IF Tail(items[h]) = <<>>
                    THEN /\ status' = [status EXCEPT ![h] = "True"]
                         /\ pc' = [pc EXCEPT ![h] = "mark"]
                    ELSE UNCHANGED <<status, pc>>
            ELSE /\ status' = [status EXCEPT ![h] = "False"]
                 /\ pc' = [pc EXCEPT ![h] = "mark"]
                 /\ UNCHANGED <<iafiles, count, items>>
    /\ UNCHANGED <<catalog, dumpdir, envVars, args, item, lists, nruns>>

\* One turn of "for dumpfile in items": iaitem.uploadFile succeeds or fails.
\* With debug it reports the outcome and sends nothing.
Upload(h) ==
    /\ pc[h] = "upload"
    /\ LET dumpfile == Head(items[h]) IN
        /\ sent' = [sent EXCEPT ![h] = Append(@, <<dumpfile, count[h] = 0>>)]
        /\ \E upload \in BOOLEAN :
            IF upload
            THEN /\ iafiles' = uploadFile(iafiles, item[h], dumpfile, args[h].debug)
                 /\ count' = [count EXCEPT ![h] = @ + 1]
                 /\ items' = [items EXCEPT ![h] = Tail(@)]
                 /\ IF Tail(items[h]) = <<>>
                    THEN /\ status' = [status EXCEPT ![h] = "True"]
                         /\ pc' = [pc EXCEPT ![h] = "mark"]
                    ELSE UNCHANGED <<status, pc>>
            ELSE /\ status' = [status EXCEPT ![h] = "False"]
                 /\ pc' = [pc EXCEPT ![h] = "mark"]
                 /\ UNCHANGED <<iafiles, count, items>>
    /\ UNCHANGED <<catalog, dumpdir, envVars, args, item, lists, nruns>>

\* BALMWikidata.archive: without --path downloadFiles creates the dump
\* directory and iterates the list getFilesToUpload returned; then
\* checkDumpDir iterates it, if the directory exists.
WikidataArchive(h) ==
    /\ pc[h] = "archive"
    /\ family = "wikidata"
    /\ \/ LET k == item[h]
              r == getFilesToUpload(k, args[h].resume, iafiles[k])
              made == IF dumpdir[k] = NoDir THEN {} ELSE dumpdir[k]
              dumps == IF args[h].path THEN dumpdir[k] ELSE made
          IN  IF r.none /\ dumps # NoDir
              THEN \* "for dumpfile in filelist" over None raises TypeError
                   /\ dumpdir' = [dumpdir EXCEPT ![k] = dumps]
                   /\ pc' = [pc EXCEPT ![h] = "raised"]
                   /\ Reset(h)
                   /\ UNCHANGED iafiles
              ELSE IF dumps = NoDir
              THEN \* checkDumpDir: the directory does not exist, return False
                   /\ status' = [status EXCEPT ![h] = "False"]
                   /\ pc' = [pc EXCEPT ![h] = "mark"]
                   /\ UNCHANGED <<dumpdir, iafiles, args, item, archiveVars, lists>>
              ELSE IF r.list = <<>>
              THEN /\ dumpdir' = [dumpdir EXCEPT ![k] = dumps]
                   /\ status' = [status EXCEPT ![h] = "True"]
                   /\ pc' = [pc EXCEPT ![h] = "mark"]
                   /\ UNCHANGED <<iafiles, args, item, archiveVars, lists>>
              ELSE \* download, upload everything in one call; without --path
                   \* remove the directory and fall off the end of the function
                   \E upload \in BOOLEAN :
                       /\ sent' = [sent EXCEPT ![h] =
                                   [i \in DOMAIN r.list |-> <<r.list[i], TRUE>>]]
                       /\ iafiles' = [iafiles EXCEPT ![k] =
                                   IF upload THEN @ \cup Range(r.list) ELSE @]
                       /\ dumpdir' = [dumpdir EXCEPT ![k] =
                                   IF args[h].path THEN dumps
                                   ELSE IF upload THEN NoDir
                                   ELSE dumps \cup Range(r.list)]
                       /\ status' = [status EXCEPT ![h] =
                                   IF ~upload THEN "False"
                                   ELSE IF args[h].path THEN "True" ELSE "None"]
                       /\ pc' = [pc EXCEPT ![h] = "mark"]
                       /\ UNCHANGED <<args, item, items, count, lists>>
       \/ \* getFilesToUpload reads the origin's file list first
          /\ OriginError(h)
          /\ UNCHANGED <<dumpdir, iafiles>>
    /\ UNCHANGED <<catalog, envVars, nruns>>

\* status = self.check(wiki=wiki, date=date); check reads the origin's file
\* list first.
Check(h) ==
    /\ pc[h] = "check"
    /\ \/ /\ status' = [status EXCEPT ![h] =
                    IF check(item[h], iafiles[item[h]]) THEN "True" ELSE "False"]
          /\ pc' = [pc EXCEPT ![h] = "mark"]
          /\ UNCHANGED <<args, item, archiveVars, lists>>
       \/ OriginError(h)
    /\ UNCHANGED <<catalog, iafiles, dumpdir, envVars, nruns>>

\* dispatch: markArchived / markFailedArchive / markChecked / markFailedCheck
\* (in debug mode the status is returned and nothing is marked), then back
\* to the drive loop or out of execute().
Release(h) ==
    /\ pc[h] = "mark"
    /\ catalog' = IF args[h].debug THEN catalog
                  ELSE Mark(catalog, args[h].job, item[h], status[h])
    /\ IF continuous(args[h])
       THEN /\ pc' = [pc EXCEPT ![h] = "loop"]
            /\ item' = [item EXCEPT ![h] = NoItem]
            /\ items' = [items EXCEPT ![h] = <<>>]
            /\ count' = [count EXCEPT ![h] = 0]
            /\ status' = [status EXCEPT ![h] = "None"]
            /\ sent' = [sent EXCEPT ![h] = <<>>]
            /\ UNCHANGED <<args, lists>>
       ELSE /\ pc' = [pc EXCEPT ![h] = "idle"]
            /\ Reset(h)
    /\ UNCHANGED <<iafiles, dumpdir, envVars, nruns>>
\* ---------------------------------------------------------------- update job
\* The wikis update() scans, in order: sorted(alldb) without the private ones.
alldb == <<"w1">>

\* "lastweek": the newest date that is at least seven days old.
lastweek == 2

\* [k |-> Op(cat, k)[k]] over the keys of S: a loop of single-key statements.
ForEach(cat, S, Op(_, _)) ==
    [k \in DOMAIN cat |-> IF k \in S THEN Op(cat, k)[k] ELSE cat[k]]

KeysOf(db, dates) == {k \in TableKeys : k[1] = db /\ k[2] \in dates}

\* The reads at the top of the loop body of update() for wiki db.
UpdateLists(cat, i) ==
    LET db == alldb[i] IN
    IF family = "dumps"
    THEN [db |-> i,
          dumps |-> getAllDumps(db),
          stored |-> getStoredDumps(cat, db, "all", "all"),
          inprogress |-> getStoredDumps(cat, db, "progress", "all"),
          cannotarc |-> getStoredDumps(cat, db, "done", "0"),
          failed |-> getStoredDumps(cat, db, "error", "all"),
          canarc |-> getStoredDumps(cat, db, "all", "1")]
    ELSE [db |-> i,
          dumps |-> getDumpDates(db),
          stored |-> getStoredDumps(cat, db, "all", "all"),
          inprogress |-> {}, cannotarc |-> {}, failed |-> {}, canarc |-> {}]

\* Step 1: every listed dump that is not in stored is inserted.
NewDumps(l) == {d \in l.dumps : d \notin l.stored}
Step1(cat, l) ==
    ForEach(cat, KeysOf(alldb[l.db], NewDumps(l)),
            LAMBDA c, k : addNewItem(c, k, liveprogress[k]))

\* Step 2 (dumps): dumps in progress whose live status is something else.
Step2(cat, l) ==
    ForEach(cat, {k \in KeysOf(alldb[l.db], l.inprogress) :
                    liveprogress[k] # "progress"},
            LAMBDA c, k : updateProgress(c, k, liveprogress[k]))

\* Step 3 (dumps): dumps that are done and whose directory is complete.
Step3(cat, l) ==
    ForEach(cat, {k \in KeysOf(alldb[l.db], l.cannotarc) :
                    checkDumpDir(dumpdir[k], getDumpFiles(k))},
            LAMBDA c, k : updateCanArchive(c, k, "1"))

\* Step 4 (dumps): failed dumps that were restarted.
Step4(cat, l) ==
    ForEach(cat, {k \in KeysOf(alldb[l.db], l.failed) :
                    liveprogress[k] \notin {"error", "unknown"}},
            LAMBDA c, k : updateProgress(c, k, liveprogress[k]))

\* A step 5 that demotes every dump of the list without looking at its
\* directory.
Step5Unchecked(cat, l) ==
    ForEach(cat, KeysOf(alldb[l.db], l.canarc),
            LAMBDA c, k : updateCanArchive(c, k, "0"))

\* Step 5 (dumps): dumps marked can_archive whose directory is not complete.
Step5(cat, l) ==
    ForEach(cat, {k \in KeysOf(alldb[l.db], l.canarc) :
                    ~checkDumpDir(dumpdir[k], getDumpFiles(k))},
            LAMBDA c, k : updateCanArchive(c, k, "0"))

\* updateCanArchiveStatus (wikidata): old enough and still at the origin.
updateCanArchiveStatus(cat, db, dumps) ==
    ForEach(cat, {k \in KeysOf(db, getStoredDumps(cat, db, "all", "0")) :
                    k[2] <= lastweek /\ k[2] \in dumps},
            LAMBDA c, k : updateCanArchive(c, k, "1"))

\* updateOldCanArchiveStatus (wikidata): no longer at the origin.
updateOldCanArchiveStatus(cat, db, dumps) ==
    ForEach(cat, {k \in KeysOf(db, getStoredDumps(cat, db, "all", "1")) :
                    k[2] \notin dumps},
            LAMBDA c, k : updateCanArchive(c, k, "0"))

\* An order that puts the dump the loop fails on among those it passed.
PrecedesOrIs(step, d, f) == IF step = "step1" THEN d <= f ELSE d >= f

\* Dump d comes before dump f in the loop of a step: step 1 goes through
\* sorted(dumps), the other steps through a getStoredDumps result, which
\* is ordered by dumpdate DESC.
Precedes(step, d, f) == IF step = "step1" THEN d < f ELSE d > f

\* The dumps for which the loop of a step reads the origin: the progress
\* in steps 1, 2 and 4, the file list in steps 3 and 5 once checkDumpDir
\* has found the local directory. The loops of wikidata read nothing.
ReadsAt(l, step) ==
    LET Local(S) == {d \in S : dumpdir[<<alldb[l.db], d>>] # NoDir}
    IN  IF family # "dumps" THEN {}
        ELSE CASE step = "step1" -> NewDumps(l)
               [] step = "step2" -> l.inprogress
               [] step = "step3" -> Local(l.cannotarc)
               [] step = "step4" -> l.failed
               [] step = "step5" -> Local(l.canarc)
               [] OTHER -> {}

\* The lists of a loop that stops at dump f.
CutBefore(l, step, f) ==
    [l EXCEPT !.dumps = {d \in @ : Precedes(step, d, f)},
              !.inprogress = {d \in @ : Precedes(step, d, f)},
              !.cannotarc = {d \in @ : Precedes(step, d, f)},
              !.failed = {d \in @ : Precedes(step, d, f)},
              !.canarc = {d \in @ : Precedes(step, d, f)}]

StepAt(cat, l, step) ==
    CASE step = "step1" -> Step1(cat, l)
      [] step = "step2" -> Step2(cat, l)
      [] step = "step3" -> Step3(cat, l)
      [] step = "step4" -> Step4(cat, l)
      [] step = "step5" -> Step5(cat, l)
      [] OTHER -> cat

\* for db in alldb: the reads for the next wiki, or "return True";
\* getAllDumps and getDumpDates read the origin.
UpdateQuery(h) ==
    /\ pc[h] = "update"
    /\ \/ IF lists[h].db < Len(alldb)
          THEN /\ lists' = [lists EXCEPT ![h] =
                                UpdateLists(catalog, lists[h].db + 1)]
               /\ pc' = [pc EXCEPT ![h] = "step1"]
               /\ UNCHANGED <<args, item, archiveVars, status>>
          ELSE /\ pc' = [pc EXCEPT ![h] = "idle"]
               /\ Reset(h)
       \/ /\ lists[h].db < Len(alldb)
          /\ OriginError(h)
    /\ UNCHANGED <<catalog, iafiles, dumpdir, envVars, nruns>>

\* The origin cannot be reached for dump f in the loop of a step: the dumps
\* before f are done, the exception leaves update().
UpdateFails(h) ==
    /\ pc[h] \in {"step1", "step2", "step3", "step4", "step5"}
    /\ \E f \in ReadsAt(lists[h], pc[h]) :
          LET l == CutBefore(lists[h], pc[h], f) IN
          /\ pc[h] = "step1"
             => \A d \in NewDumps(l) :
                   Len(catalog[<<alldb[l.db], d>>]) < MaxRows
          /\ catalog' = StepAt(catalog, l, pc[h])
    /\ OriginError(h)
    /\ UNCHANGED <<iafiles, dumpdir, envVars, nruns>>

UpdateStep1(h) ==
    /\ pc[h] = "step1"
    /\ \A d \in NewDumps(lists[h]) :
            Len(catalog[<<alldb[lists[h].db], d>>]) < MaxRows
    /\ catalog' = Step1(catalog, lists[h])
    /\ pc' = [pc EXCEPT ![h] = "step2"]
    /\ UNCHANGED <<iafiles, dumpdir, envVars, args, item, archiveVars, status,
                   lists, nruns>>

UpdateStep2(h) ==
    /\ pc[h] = "step2"
    /\ catalog' = IF family = "dumps"
                  THEN Step2(catalog, lists[h])
                  ELSE updateCanArchiveStatus(catalog, alldb[lists[h].db],
                                              lists[h].dumps)
    /\ pc' = [pc EXCEPT ![h] = "step3"]
    /\ UNCHANGED <<iafiles, dumpdir, envVars, args, item, archiveVars, status,
                   lists, nruns>>

UpdateStep3(h) ==
    /\ pc[h] = "step3"
    /\ catalog' = IF family = "dumps"
                  THEN Step3(catalog, lists[h])
                  ELSE updateOldCanArchiveStatus(catalog, alldb[lists[h].db],
                                                 lists[h].dumps)
    /\ pc' = [pc EXCEPT ![h] = IF family = "dumps" THEN "step4" ELSE "update"]
    /\ UNCHANGED <<iafiles, dumpdir, envVars, args, item, archiveVars, status,
                   lists, nruns>>

UpdateStep4(h) ==
    /\ pc[h] = "step4"
    /\ catalog' = Step4(catalog, lists[h])
    /\ pc' = [pc EXCEPT ![h] = "step5"]
    /\ UNCHANGED <<iafiles, dumpdir, envVars, args, item, archiveVars, status,
                   lists, nruns>>

UpdateStep5(h) ==
    /\ pc[h] = "step5"
    /\ catalog' = Step5(catalog, lists[h])
    /\ pc' = [pc EXCEPT ![h] = "update"]
    /\ UNCHANGED <<iafiles, dumpdir, envVars, args, item, archiveVars, status,
                   lists, nruns>>

\* ---------------------------------------------------------------- specification
\* update() run from start to end with no other process active.
\* Op applied to the value of x: one statement after another.
Then(x, Op(_)) == CHOOSE r \in {Op(v) : v \in {x}} : TRUE

UpdateDb(cat, i) ==
    Then(UpdateLists(cat, i), LAMBDA l :
    Then(Step1(cat, l), LAMBDA c1 :
    IF family = "dumps"
    THEN Then(Step2(c1, l), LAMBDA c2 :
         Then(Step3(c2, l), LAMBDA c3 :
         Then(Step4(c3, l), LAMBDA c4 : Step5(c4, l))))
    ELSE Then(updateCanArchiveStatus(c1, alldb[i], l.dumps), LAMBDA c2 :
         updateOldCanArchiveStatus(c2, alldb[i], l.dumps))))

RECURSIVE UpdateFrom(_, _)
UpdateFrom(cat, i) ==
    IF i > Len(alldb) THEN cat
    ELSE Then(UpdateDb(cat, i), LAMBDA c : UpdateFrom(c, i + 1))

RECURSIVE UpdateTimes(_, _)
UpdateTimes(cat, n) ==
    IF n = 0 THEN cat
    ELSE Then(UpdateFrom(cat, 1), LAMBDA c : UpdateTimes(c, n - 1))

\* The local dump directories and origin statuses a run starts from.
Complete == {"dumpruninfo.txt", "f1", "status.html"}
DumpsEnvs ==
    {[dumpdir |-> (<<"w1", 1>> :> (Complete \cup {"md5sums.txt"})
                   @@ <<"w1", 2>> :> Complete),
      liveprogress |-> (<<"w1", 1>> :> getDumpProgress(<<"done", "skipped">>)
                        @@ <<"w1", 2>> :> getDumpProgress(<<"done">>))],
     [dumpdir |-> (<<"w1", 1>> :> Complete @@ <<"w1", 2>> :> NoDir),
      liveprogress |-> (<<"w1", 1>> :> getDumpProgress(<<"done">>)
                        @@ <<"w1", 2>> :> getDumpProgress(<<"done", "waiting">>))]}

\* The file listings of the wikibase origin: both snapshots complete, or
\* the directory of the second one without a single link.
WikidataIndexes ==
    {[k \in Keys |-> {"f1", "f2"}],
     [k \in Keys |-> IF k[2] = 1 THEN {"f1", "f2"} ELSE {}]}

Idle ==
    /\ pc = [h \in Hosts |-> "idle"]
    /\ args = [h \in Hosts |-> NoArgs]
    /\ item = [h \in Hosts |-> NoItem]
    /\ items = [h \in Hosts |-> <<>>]
    /\ count = [h \in Hosts |-> 0]
    /\ status = [h \in Hosts |-> "None"]
    /\ sent = [h \in Hosts |-> <<>>]
    /\ lists = [h \in Hosts |-> NoLists]
    /\ nruns = 0

InitOrigin ==
    /\ family \in Families
    /\ cleared = {}
    /\ alldumps = [w \in Wikis |-> Dates \cup {dcatap}]
    /\ raw = <<>>
    /\ output = NoOutput
    /\ IF family = "dumps"
       THEN /\ index = [k \in Keys |-> {"f1"}]
            /\ \E e \in DumpsEnvs :
                /\ dumpdir = e.dumpdir
                /\ liveprogress = e.liveprogress
       ELSE /\ index \in WikidataIndexes
            /\ dumpdir = [k \in Keys |-> NoDir]
            /\ liveprogress = [k \in TableKeys |-> "unknown"]

\* No item of the family was sent to the Internet Archive yet.
InitEnv ==
    /\ InitOrigin
    /\ iafiles = [k \in Keys |-> {}]

\* The catalog is empty or is what earlier update runs left.
Init ==
    /\ InitEnv
    /\ catalog \in {UpdateTimes([k \in TableKeys |-> <<>>], n) : n \in 0..InitRuns}
    /\ Idle

\* The catalog as created: no row.
InitSeq ==
    /\ InitEnv
    /\ catalog = [k \in TableKeys |-> <<>>]
    /\ Idle

Step(h) ==
    \/ ItemsLeft(h)
    \/ RandomItem(h)
    \/ Claim(h)
    \/ DumpsArchive(h)
    \/ Upload(h)
    \/ WikidataArchive(h)
    \/ Check(h)
    \/ Release(h)
    \/ UpdateQuery(h)
    \/ UpdateStep1(h)
    \/ UpdateStep2(h)
    \/ UpdateStep3(h)
    \/ UpdateStep4(h)
    \/ UpdateStep5(h)
    \/ UpdateFails(h)

\* Processes on all hosts, interleaved statement by statement.
Next == \E h \in Hosts : Execute(h) \/ Step(h)

Spec == Init /\ [][Next]_vars

\* One process after the other on one host, from the empty catalog, with
\* every argument combination.
NextSeq == ExecuteUpTo("h1", MaxSeqRuns, AllArgsSet) \/ Step("h1")

SpecSeq == InitSeq /\ [][NextSeq]_vars

\* getDumpProgress on its own: a dumpruninfo.txt is read and both versions
\* of the function are applied to its statuses.
InitProgress ==
    /\ family = "dumps"
    /\ catalog = [k \in TableKeys |-> <<>>]
    /\ iafiles = [k \in Keys |-> {}]
    /\ dumpdir = [k \in Keys |-> NoDir]
    /\ alldumps = [w \in Wikis |-> Dates \cup {dcatap}]
    /\ index = [k \in Keys |-> {"f1"}]
    /\ liveprogress = [k \in Keys |-> "unknown"]
    /\ cleared = {}
    /\ raw \in RunInfos
    /\ output = NoOutput
    /\ Idle

DumpProgress ==
    /\ output = NoOutput
    /\ output' = [modules |-> getDumpProgress(raw),
                  legacy |-> BALDumps_getDumpProgress(raw)]
    /\ UNCHANGED <<family, catalog, iafiles, dumpdir, alldumps, index,
                   liveprogress, pc, args, item, items, count, status, sent,
                   lists, nruns, cleared, raw>>

NextProgress == DumpProgress

SpecProgress == InitProgress /\ [][NextProgress]_vars

\* The process on host h is killed inside archive() or check(): its locals
\* are gone; item[h] still names the item it was working on.
Crash(h) ==
    /\ pc[h] \in {"archive", "upload", "check"}
    /\ pc' = [pc EXCEPT ![h] = "killed"]
    /\ args' = [args EXCEPT ![h] = NoArgs]
    /\ items' = [items EXCEPT ![h] = <<>>]
    /\ count' = [count EXCEPT ![h] = 0]
    /\ status' = [status EXCEPT ![h] = "None"]
    /\ sent' = [sent EXCEPT ![h] = <<>>]
    /\ UNCHANGED <<catalog, iafiles, dumpdir, envVars, item, lists, nruns>>

\* The item a killed process has left claimed.
Orphan(k) ==
    \E h \in Hosts :
        /\ pc[h] = "killed"
        /\ item[h] = k
        /\ \E i \in DOMAIN catalog[k] : catalog[k][i].claimed_by = h

\* An operator sets claimed_by back to NULL on the item of a killed process.
ClearClaim(k) ==
    /\ Orphan(k)
    /\ catalog' = SqlUpdate(catalog, k, [claimed_by |-> NULL])
    /\ cleared' = cleared \cup {k}
    /\ UNCHANGED <<family, iafiles, dumpdir, alldumps, index, liveprogress, pc,
                   args, item, items, count, status, sent, lists, nruns, raw,
                   output>>

\* Archive and update runs on one host, with kills and manual clears, on
\* the catalog two update runs left.
CrashArgs ==
    {[NoArgs EXCEPT !.job = j] : j \in {"archive", "update"}}
    \cup {[NoArgs EXCEPT !.wiki = "w1", !.date = 1, !.resume = r] : r \in BOOLEAN}

InitCrash ==
    /\ InitEnv
    /\ catalog = UpdateTimes([k \in TableKeys |-> <<>>], 2)
    /\ Idle

NextCrash ==
    \/ ExecuteUpTo("h1", MaxCrashRuns, CrashArgs)
    \/ ItemsLeft("h1")
    \/ RandomItem("h1")
    \/ Claim("h1")
    \/ DumpsArchive("h1")
    \/ Upload("h1")
    \/ WikidataArchive("h1")
    \/ Release("h1")
    \/ UpdateQuery("h1")
    \/ UpdateStep1("h1")
    \/ UpdateStep2("h1")
    \/ UpdateStep3("h1")
    \/ UpdateStep4("h1")
    \/ UpdateStep5("h1")
    \/ UpdateFails("h1")
    \/ Crash("h1")
    \/ \E k \in Keys : ClearClaim(k)

SpecCrash == InitCrash /\ [][NextCrash]_vars

\* Check drive loops, one of them started with --debug, on a catalog that
\* two update runs and a complete archive of the first snapshot left.
RaceArgs ==
    {[NoArgs EXCEPT !.job = "check", !.debug = d] : d \in BOOLEAN}

InitRace ==
    /\ InitOrigin
    /\ family = "dumps"
    /\ catalog = markArchived(UpdateTimes([k \in TableKeys |-> <<>>], 2),
                              <<"w1", 1>>)
    /\ iafiles = [k \in Keys |->
                    IF k = <<"w1", 1>>
                    THEN Range(DumpsArchiveItems(k, FALSE, dumpdir[k], {}).items)
                    ELSE {}]
    /\ Idle

NextRace ==
    \E h \in Hosts :
        \/ ExecuteUpTo(h, MaxRaceRuns, RaceArgs)
        \/ ItemsLeft(h)
        \/ RandomItem(h)
        \/ Claim(h)
        \/ Check(h)
        \/ Release(h)

SpecRace == InitRace /\ [][NextRace]_vars

\* No process is running on any host.
Quiet == \A h \in Hosts : pc[h] \in {"idle", "raised", "ioerror", "killed"}

\* The dump run of a snapshot moves on at the origin: dumpruninfo.txt now
\* gives another progress.
OriginMoves(k) ==
    /\ Quiet
    /\ \E p \in {"progress", "done", "error", "unknown"} :
          /\ p # liveprogress[k]
          /\ liveprogress' = [liveprogress EXCEPT ![k] = p]
    /\ UNCHANGED <<family, catalog, iafiles, dumpdir, alldumps, index, pc, args,
                   item, items, count, status, sent, lists, nruns, cleared, raw,
                   output>>

\* The local mirror of a snapshot is synchronised or pruned.
MirrorMoves(k) ==
    /\ Quiet
    /\ \E d \in {NoDir, Complete} :
          /\ d # dumpdir[k]
          /\ dumpdir' = [dumpdir EXCEPT ![k] = d]
    /\ UNCHANGED <<catalog, iafiles, envVars, pc, args, item, items, count,
                   status, sent, lists, nruns>>

\* Update runs and archive dispatches on one host of the dumps family, on
\* the catalog a first update run left, while origin and mirror change
\* between the runs.
MirrorArgs ==
    {[NoArgs EXCEPT !.job = "update"], [NoArgs EXCEPT !.wiki = "w1", !.date = 1]}

InitMirror ==
    /\ InitEnv
    /\ family = "dumps"
    /\ catalog = UpdateTimes([k \in TableKeys |-> <<>>], 1)
    /\ Idle

NextMirror ==
    \/ ExecuteUpTo("h1", MaxMirrorRuns, MirrorArgs)
    \/ Claim("h1")
    \/ DumpsArchive("h1")
    \/ Upload("h1")
    \/ Release("h1")
    \/ UpdateQuery("h1")
    \/ UpdateStep1("h1")
    \/ UpdateStep2("h1")
    \/ UpdateStep3("h1")
    \/ UpdateStep4("h1")
    \/ UpdateStep5("h1")
    \/ \E k \in Keys : OriginMoves(k)
    \/ \E k \in Keys : MirrorMoves(k)

SpecMirror == InitMirror /\ [][NextMirror]_vars

\* The cron schedule of one host: an update run, then an archive drive
\* loop, then a check drive loop, over and over; nruns is the place in the
\* schedule.
Schedule == <<"update", "archive", "check">>

ScheduledRun(h) ==
    /\ pc[h] = "idle"
    /\ nruns < Len(Schedule)
    /\ nruns' = (nruns + 1) % Len(Schedule)
    /\ args' = [args EXCEPT ![h] = [NoArgs EXCEPT !.job = Schedule[nruns + 1]]]
    /\ pc' = [pc EXCEPT ![h] = IF Schedule[nruns + 1] = "update"
                                THEN "update" ELSE "loop"]
    /\ UNCHANGED <<catalog, iafiles, dumpdir, envVars, item, archiveVars,
                   status, lists>>

\* Step 1 where the table of the model is full: of a dump that has MaxRows
\* rows already, one of them equal to the row step 1 inserts, the further
\* copy is not kept.
UpdateStep1Full(h) ==
    /\ pc[h] = "step1"
    /\ LET db == alldb[lists[h].db]
           full == {d \in NewDumps(lists[h]) : Len(catalog[<<db, d>>]) >= MaxRows}
       IN  /\ \A d \in full :
                 \E i \in DOMAIN catalog[<<db, d>>] :
                     catalog[<<db, d>>][i] =
                         Row(liveprogress[<<db, d>>], "0", "0", "0", NULL)
           /\ catalog' = Step1(catalog, [lists[h] EXCEPT !.dumps = @ \ full])
    /\ pc' = [pc EXCEPT ![h] = "step2"]
    /\ UNCHANGED <<iafiles, dumpdir, envVars, args, item, archiveVars, status,
                   lists, nruns>>

\* No upload fails and the origin is reachable.
NoFailure ==
    /\ pc'["h1"] # "ioerror"
    /\ ~(pc["h1"] = "upload" /\ status'["h1"] = "False")

\* Snapshot (w1, 1) is done at the origin and complete in the local
\* mirror, and the catalog is empty; snapshot (w1, 2) is done or still
\* running, and mirrored or not.
InitLive ==
    /\ family = "dumps"
    /\ cleared = {}
    /\ alldumps = [w \in Wikis |-> Dates \cup {dcatap}]
    /\ raw = <<>>
    /\ output = NoOutput
    /\ index = [k \in Keys |-> {"f1"}]
    /\ \E d \in {NoDir, Complete}, p \in {"done", "progress"} :
          /\ dumpdir = (<<"w1", 1>> :> Complete @@ <<"w1", 2>> :> d)
          /\ liveprogress = (<<"w1", 1>> :> "done" @@ <<"w1", 2>> :> p)
    /\ iafiles = [k \in Keys |-> {}]
    /\ catalog = [k \in TableKeys |-> <<>>]
    /\ Idle

NextLive ==
    \/ ScheduledRun("h1") /\ NoFailure
    \/ ItemsLeft("h1") /\ NoFailure
    \/ RandomItem("h1") /\ NoFailure
    \/ Claim("h1") /\ NoFailure
    \/ DumpsArchive("h1") /\ NoFailure
    \/ Upload("h1") /\ NoFailure
    \/ Check("h1") /\ NoFailure
    \/ Release("h1") /\ NoFailure
    \/ UpdateQuery("h1") /\ NoFailure
    \/ UpdateStep1Full("h1") /\ NoFailure
    \/ UpdateStep2("h1") /\ NoFailure
    \/ UpdateStep3("h1") /\ NoFailure
    \/ UpdateStep4("h1") /\ NoFailure
    \/ UpdateStep5("h1") /\ NoFailure

\* cron starts every run and every started process runs on.
SpecLive == InitLive /\ [][NextLive]_vars /\ WF_vars(NextLive)

\* ---------------------------------------------------------------- claims
Rows(k) == {catalog[k][i] : i \in DOMAIN catalog[k]}
InPipeline(h) == pc[h] \in {"archive", "upload", "check"}
DriveLoop(h) == args[h].job \in {"archive", "check"} /\ continuous(args[h])

\* C1: a claim sets claimed_by only where claimed_by is NULL: of two
\* concurrent claims on an unclaimed item the second leaves the claimed_by
\* the first one wrote unchanged (no step replaces one host's claim by
\* another host's).
C1_ClaimOnlyWhereNull ==
    [][\A k \in Keys : \A i \in DOMAIN catalog[k] :
          catalog[k][i].claimed_by # NULL
          => catalog'[k][i].claimed_by \in {catalog[k][i].claimed_by, NULL}]_vars

\* C2: at most one drive-loop worker is inside the archive or check
\* pipeline for a given (wiki, date) item.
C2_OneWorkerPerItem ==
    \A g, h \in Hosts :
        (g # h /\ DriveLoop(g) /\ DriveLoop(h) /\ InPipeline(g) /\ InPipeline(h))
        => item[g] # item[h]

\* C3: when a dispatch that is not in debug mode finishes after the
\* pipeline returned, every row of the item has claimed_by NULL, for both
\* jobs and both outcomes.
C3_ReleaseClearsClaim ==
    [][\A h \in Hosts :
          (pc[h] = "mark" /\ pc'[h] # "mark" /\ ~args[h].debug)
          => \A i \in DOMAIN catalog'[item[h]] :
                catalog'[item[h]][i].claimed_by = NULL]_vars

\* C3 witness: one item was released as archived and another as failed.
C3_Witness ==
    \E j, k \in Keys :
        /\ \E r \in Rows(j) : r.is_archived = "1" /\ r.claimed_by = NULL
        /\ \E r \in Rows(k) : r.is_archived = "2" /\ r.claimed_by = NULL

\* C4: a drive-loop worker goes from its claim into the pipeline only if
\* its claim succeeded, that is the item was unclaimed when it claimed.
C4_PipelineOnlyAfterWonClaim ==
    [][\A h \in Hosts :
          (DriveLoop(h) /\ pc[h] = "claim" /\ pc'[h] \in {"archive", "check"})
          => \A r \in Rows(item[h]) : r.claimed_by = NULL]_vars

\* C5: the catalog holds at most one row per (wiki, date).
C5_UniqueKey == \A k \in Keys : Len(catalog[k]) <= 1

\* C6: from any catalog state, with nothing else running, the second of
\* two update runs in a row changes nothing.
C6_SecondUpdateChangesNothing ==
    Quiet => UpdateFrom(UpdateFrom(catalog, 1), 1) = UpdateFrom(catalog, 1)

\* C7: an archive run in resume mode on an item with a complete local
\* copy, required files R and backend files S (a subset of R), uploads
\* exactly R minus S, and when S = R uploads nothing and returns success.
C7_ResumeUploadsDifference ==
    [][\A h \in Hosts :
          LET k == item[h]
              R == Range(getDumpFiles(k))
              S == iafiles[k]
          IN  (/\ pc[h] = "archive"
               /\ pc'[h] # "archive"
               /\ args[h].resume
               /\ S \subseteq R
               /\ family = "dumps" => checkDumpDir(dumpdir[k], getDumpFiles(k)))
              => IF S = R
                 THEN pc'[h] = "mark" /\ status'[h] = "True" /\ sent'[h] = <<>>
                 ELSE pc'[h] = "upload" /\ Range(items'[h]) = R \ S]_vars
PickedBy(h, job) ==
    /\ pc[h] = "pick"
    /\ pc'[h] = "claim"
    /\ args[h].job = job
    /\ item'[h] # NoItem

\* C8 as the specification states it: every item the drive loop selects
\* for archive has progress = done, can_archive = 1, is_archived = 0 and
\* claimed_by NULL at the moment of selection.
C8_SelectedIsDoneAndArchivable ==
    [][\A h \in Hosts :
          PickedBy(h, "archive")
          => \E r \in Rows(item'[h]) :
                /\ r.progress = "done"
                /\ r.can_archive = "1"
                /\ r.is_archived = "0"
                /\ r.claimed_by = NULL]_vars

\* C8 amended: every item the drive loop selects for archive has
\* can_archive = 1, is_archived = 0 and claimed_by NULL at the moment of
\* selection, and in the dumps family also progress = done; the wikidata
\* family keeps no progress and selects without it.
C8_SelectedIsArchivable ==
    [][\A h \in Hosts :
          PickedBy(h, "archive")
          => \E r \in Rows(item'[h]) :
                /\ family = "dumps" => r.progress = "done"
                /\ family = "wikidata" => r.progress = NoColumn
                /\ r.can_archive = "1"
                /\ r.is_archived = "0"
                /\ r.claimed_by = NULL]_vars

\* C8 witness: a wikidata drive loop has selected an item for archive.
C8_Witness ==
    \E h \in Hosts :
        /\ family = "wikidata"
        /\ pc[h] = "claim"
        /\ DriveLoop(h)
        /\ args[h].job = "archive"
        /\ item[h] # NoItem

C10_FailedArchiveNotRetried ==
    \A k \in Keys :
        (\E r \in Rows(k) : r.is_archived = "2")
        => /\ \A r \in Rows(k) : ~ItemsLeftConds("archive", r)
           /\ k \notin getRandomItem(catalog, "archive")
Pending == {"in-progress", "waiting"}
Finished == {"done", "skipped"}
Has(S) == \E i \in DOMAIN raw : raw[i] \in S
FirstFailed == CHOOSE i \in DOMAIN raw : raw[i] = "failed" /\ \A j \in 1..(i - 1) : raw[j] # "failed"

\* C16 as the specification states it: for every sequence of statuses with
\* at least one failed, getDumpProgress returns error, whatever the other
\* statuses are and wherever they stand.
C16_FailedGivesError ==
    (output # NoOutput /\ Has({"failed"})) => output.modules = "error"

\* C16 amended: for a sequence with at least one failed, getDumpProgress
\* returns error unless a status it does not know stands before the first
\* failed one, and then it returns unknown; the older
\* BALDumps.getDumpProgress returns error in every such case.
C16_FailedGivesErrorUnlessUnknownFirst ==
    (output # NoOutput /\ Has({"failed"}))
    => /\ output.modules =
            IF \E j \in 1..(FirstFailed - 1) : raw[j] = "new"
            THEN "unknown" ELSE "error"
       /\ output.legacy = "error"

\* C16 witness: error was returned for a failed status that stands between
\* a finished and a pending one.
C16_Witness ==
    /\ Len(raw) = 3
    /\ raw[1] \in Finished /\ raw[2] = "failed" /\ raw[3] \in Pending
    /\ output.modules = "error"

\* C17 as the specification states it: without a failed status the result
\* is progress if any status is pending, otherwise done if any status is
\* done or skipped, and unknown only when no status is recognised.
C17_ProgressDoneUnknown ==
    (output # NoOutput /\ ~Has({"failed"}))
    => /\ output.modules =
            IF Has(Pending) THEN "progress"
            ELSE IF Has(Finished) THEN "done" ELSE "unknown"
       /\ output.modules = "unknown" => ~Has(Pending \cup Finished)

\* C17 amended: without a failed status getDumpProgress returns unknown
\* as soon as one status is not recognised; with every status recognised
\* it returns progress if any is in-progress or waiting, otherwise done if
\* any is done or skipped, otherwise (no status at all) unknown.  The older
\* BALDumps.getDumpProgress passes over skipped and unrecognised statuses.
C17_UnknownStatusGivesUnknown ==
    (output # NoOutput /\ ~Has({"failed"}))
    => /\ output.modules =
            IF Has({"new"}) THEN "unknown"
            ELSE IF Has(Pending) THEN "progress"
            ELSE IF Has(Finished) THEN "done" ELSE "unknown"
       /\ output.legacy =
            IF Has(Pending) THEN "progress"
            ELSE IF Has({"done"}) THEN "done" ELSE "unknown"

\* C17 witness: unknown was returned for statuses of which one is pending
\* and one is not recognised.
C17_Witness ==
    /\ Has({"new"}) /\ Has(Pending) /\ ~Has({"failed"})
    /\ output.modules = "unknown"
\* A step of the process on host h.
StepOf(h) == pc'[h] # pc[h] \/ args'[h] # args[h] \/ item'[h] # item[h]

\* C11: no step of a check dispatch changes is_archived or can_archive of
\* any row or the file set of any backend item, whatever the check finds.
C11_CheckReadOnly ==
    [][\A h \in Hosts :
          (args[h].job = "check" /\ pc[h] \in {"claim", "check", "mark"} /\ StepOf(h))
          => /\ iafiles' = iafiles
             /\ \A k \in DOMAIN catalog :
                   /\ DOMAIN catalog'[k] = DOMAIN catalog[k]
                   /\ \A i \in DOMAIN catalog[k] :
                         /\ catalog'[k][i].is_archived = catalog[k][i].is_archived
                         /\ catalog'[k][i].can_archive = catalog[k][i].can_archive]_vars

\* C11 witness: a check has failed on an item that is not archived and a
\* check dispatch is at its mark on an archivable item.
C11_Witness ==
    /\ \E k \in Keys : \E r \in Rows(k) : r.is_checked = "2" /\ r.is_archived = "0"
    /\ \E h \in Hosts :
          /\ pc[h] = "mark" /\ args[h].job = "check"
          /\ \E r \in Rows(item[h]) : r.can_archive = "1"

\* C12 as the specification states it: check returns True exactly when the
\* origin's file list and the backend's file list are equal as sets.
C12_CheckedIffEqual ==
    [][\A h \in Hosts :
          (pc[h] = "check" /\ pc'[h] = "mark")
          => (status'[h] = "True"
              <=> Range(getDumpFiles(item[h])) = iafiles[item[h]])]_vars

\* C12 amended: check returns True, and is_checked = 1 is recorded, exactly
\* when every file of the origin's list is in the backend's list; files the
\* backend holds beyond that list do not fail the check; otherwise
\* is_checked = 2 is recorded.
C12_CheckedIffSubset ==
    [][\A h \in Hosts :
          /\ (pc[h] = "check" /\ pc'[h] = "mark")
             => (status'[h] = "True"
                 <=> Range(getDumpFiles(item[h])) \subseteq iafiles[item[h]])
          /\ (pc[h] = "mark" /\ pc'[h] # "mark" /\ args[h].job = "check")
             => \A i \in DOMAIN catalog'[item[h]] :
                   catalog'[item[h]][i].is_checked =
                       IF status[h] = "True" THEN "1" ELSE "2"]_vars

\* C12 witness: an item is recorded as checked while the backend holds a
\* file that the origin's list does not have.
C12_Witness ==
    \E k \in Keys :
        /\ \E r \in Rows(k) : r.is_checked = "1"
        /\ iafiles[k] \ Range(getDumpFiles(k)) # {}

\* C13: a non-debug archive dispatch that reached archive() ends by marking
\* the item, and it records is_archived = 1 only with every required file
\* at the backend; in particular it does not end without a mark while no
\* upload has failed.
C13_ArchiveEndsMarked ==
    [][\A h \in Hosts :
          (args[h].job = "archive" /\ ~args[h].debug)
          => /\ pc[h] = "archive" => pc'[h] # "raised"
             /\ (pc[h] = "mark" /\ pc'[h] # "mark"
                 /\ \E i \in DOMAIN catalog'[item[h]] :
                        catalog'[item[h]][i].is_archived = "1")
                => Range(getDumpFiles(item[h])) \subseteq iafiles[item[h]]]_vars

\* C20: no step of a process started with --debug changes the catalog or
\* the file set of any backend item, whichever job it runs and whatever
\* it reports.
C20_DebugChangesNothing ==
    [][\A h \in Hosts :
          (args[h].debug /\ StepOf(h))
          => catalog' = catalog /\ iafiles' = iafiles]_vars

\* C14: archive and check on an item whose file enumeration is empty end
\* by recording Failed (is_archived = 2, is_checked = 2); no dispatch on
\* such an item records Archived or Checked, or ends without a mark.
C14_EmptyEnumerationFails ==
    [][\A h \in Hosts :
          (/\ pc[h] \in {"archive", "check", "mark"}
           /\ ~args[h].debug
           /\ getDumpFiles(item[h]) = <<>>
           /\ StepOf(h))
          => /\ pc'[h] # "raised"
             /\ pc[h] = "mark"
                => \A i \in DOMAIN catalog'[item[h]] :
                      IF args[h].job = "archive"
                      THEN catalog'[item[h]][i].is_archived = "2"
                      ELSE catalog'[item[h]][i].is_checked = "2"]_vars

C19_OriginErrorLeavesRow ==
    [][\A h \in Hosts :
          (/\ pc[h] \in {"archive", "check"}
           /\ pc'[h] = "ioerror"
           /\ ~args[h].debug)
          => /\ \A i \in DOMAIN catalog'[item[h]] :
                   catalog'[item[h]][i].claimed_by = NULL
             /\ DriveLoop(h) => item[h] \in getRandomItem(catalog', args[h].job)]_vars

UpdatePcs == {"update", "step1", "step2", "step3", "step4", "step5"}

C23_RowsNeverDeleted ==
    [][\A k \in TableKeys :
          /\ Len(catalog'[k]) >= Len(catalog[k])
          /\ \A i \in DOMAIN catalog[k] :
                DOMAIN catalog'[k][i] = DOMAIN catalog[k][i]]_vars

\* C23 witness: rows were inserted, one key got a second row, and rows of
\* it were updated by an archive that ended.
C23_Witness ==
    \E k \in Keys :
        /\ Len(catalog[k]) >= 2
        /\ \E r \in Rows(k) : r.is_archived \in {"1", "2"}

\* C22: getRandomItem never raises and gives the sentinel item when no
\* unclaimed eligible item exists, and for the sentinel the drive loop
\* neither runs the pipeline nor writes to the catalog.
C22_SentinelSkipped ==
    [][\A h \in Hosts :
          /\ (pc[h] = "pick" /\ StepOf(h))
             => /\ pc'[h] = "claim"
                /\ getRandomItem(catalog, args[h].job) = {NoItem}
                   => item'[h] = NoItem
          /\ (pc[h] = "claim" /\ item[h] = NoItem /\ StepOf(h))
             => /\ catalog' = catalog
                /\ pc'[h] \notin {"archive", "upload", "check", "mark"}]_vars

\* C21: an item whose worker was killed inside the pipeline stays claimed
\* in every step that is not a manual clear, no drive loop selects a
\* claimed item, no step of update() changes a claimed_by, and a resumed
\* archive dispatch on the item after the manual clear sends every
\* required file that is missing at the backend and no file that is there.
C21_KilledItemStaysClaimed ==
    [][/\ \A k \in Keys :
            (Orphan(k) /\ ~ClearClaim(k))
            => \A i \in DOMAIN catalog[k] :
                  catalog[k][i].claimed_by # NULL
                  => catalog'[k][i].claimed_by # NULL
       /\ \A h \in Hosts :
            /\ (pc[h] = "pick" /\ pc'[h] = "claim" /\ item'[h] # NoItem)
               => \A i \in DOMAIN catalog[item'[h]] :
                     catalog[item'[h]][i].claimed_by = NULL
            /\ (pc[h] \in UpdatePcs /\ StepOf(h))
               => \A k \in TableKeys : \A i \in DOMAIN catalog[k] :
                     catalog'[k][i].claimed_by = catalog[k][i].claimed_by
            /\ LET k == item[h]
                   R == Range(getDumpFiles(k))
                   S == iafiles[k]
               IN  (/\ pc[h] = "archive"
                    /\ pc'[h] \notin {"archive", "killed", "ioerror"}
                    /\ args[h].resume
                    /\ k \in cleared
                    /\ family = "dumps" => checkDumpDir(dumpdir[k], getDumpFiles(k)))
                   => IF R \subseteq S
                      THEN pc'[h] = "mark" /\ status'[h] = "True"
                      ELSE /\ pc'[h] = "upload"
                           /\ R \ S \subseteq Range(items'[h])
                           /\ Range(items'[h]) \cap S = {}]_vars

\* An upload call of host h's archive pipeline has just failed.
UploadFailed(h) ==
    /\ sent'[h] # sent[h] /\ sent'[h] # <<>>
    /\ IF family = "dumps" THEN count'[h] = count[h] ELSE status'[h] = "False"

\* C25: a failed upload adds nothing to the backend and takes the archive
\* pipeline straight to its end with status False; the step after it
\* uploads nothing and, in a non-debug dispatch, leaves every row of the
\* item with is_archived = 2 and claimed_by NULL.
C25_FirstFailureEndsRun ==
    [][\A h \in Hosts :
          /\ UploadFailed(h)
             => /\ pc'[h] = "mark" /\ status'[h] = "False"
                /\ iafiles' = iafiles
          /\ (/\ pc[h] = "mark" /\ args[h].job = "archive"
              /\ status[h] = "False" /\ sent[h] # <<>> /\ StepOf(h))
             => /\ iafiles' = iafiles
                /\ pc'[h] \in {"idle", "loop"}
                /\ ~args[h].debug
                   => \A i \in DOMAIN catalog'[item[h]] :
                         /\ catalog'[item[h]][i].is_archived = "2"
                         /\ catalog'[item[h]][i].claimed_by = NULL]_vars

\* C25 witness: an item has been recorded as failed and released with some
\* but not all of its required files at the backend.
C25_Witness ==
    /\ family = "dumps"
    /\ \E k \in Keys :
          /\ iafiles[k] # {}
          /\ ~(Range(getDumpFiles(k)) \subseteq iafiles[k])
          /\ Rows(k) # {}
          /\ \A r \in Rows(k) : r.is_archived = "2" /\ r.claimed_by = NULL

\* The archive pipeline of host h is at its entry and the local copy of its
\* item lacks a required file or is missing altogether (in the wikidata
\* family the copy is the directory given with --path).
AtIncompleteCopy(h) ==
    /\ pc[h] = "archive" /\ args[h].job = "archive" /\ StepOf(h)
    /\ pc'[h] \notin {"ioerror", "killed"}
    /\ family = "wikidata" => args[h].path
    /\ ~checkDumpDir(dumpdir[item[h]], getDumpFiles(item[h]))

\* C26: an archive dispatch that meets an incomplete local copy at its
\* entry uploads nothing and returns False, and the non-debug dispatch then
\* leaves every row of the item with is_archived = 2.
C26_IncompleteCopyFails ==
    [][\A h \in Hosts :
          /\ AtIncompleteCopy(h)
             => /\ pc'[h] = "mark" /\ status'[h] = "False"
                /\ sent'[h] = <<>> /\ iafiles' = iafiles
          /\ (/\ pc[h] = "mark" /\ args[h].job = "archive" /\ ~args[h].debug
              /\ status[h] = "False" /\ sent[h] = <<>> /\ StepOf(h))
             => /\ iafiles' = iafiles
                /\ \A i \in DOMAIN catalog'[item[h]] :
                      catalog'[item[h]][i].is_archived = "2"]_vars

\* C27: an incomplete local copy never ends a step in an exception and
\* never changes an is_archived: not in the archive dispatch that met it
\* (which returns False), not in the mark that follows, and not in any
\* step of update().
C27_IncompleteNeverFails ==
    [][\A h \in Hosts :
          /\ AtIncompleteCopy(h)
             => pc'[h] = "mark" /\ status'[h] = "False"
          /\ (\/ /\ pc[h] = "mark" /\ args[h].job = "archive"
                 /\ status[h] = "False" /\ sent[h] = <<>>
              \/ pc[h] \in UpdatePcs)
             /\ StepOf(h)
             => \A k \in TableKeys : \A i \in DOMAIN catalog[k] :
                   catalog'[k][i].is_archived = catalog[k][i].is_archived]_vars

\* A row of k has can_archive = 1 before the step and 0 after it.
Demoted(k) ==
    \E i \in DOMAIN catalog[k] :
        catalog[k][i].can_archive = "1" /\ catalog'[k][i].can_archive = "0"

Unpromoted(k) ==
    \E i \in DOMAIN catalog[k] :
        catalog[k][i].progress = "done" /\ catalog[k][i].can_archive = "0"

\* C29: a step of update() sets can_archive from 0 to 1 only on a row with
\* progress = done of an item whose directory is complete; the list the
\* promotion step works from holds every stored item with progress = done
\* and can_archive = 0, and the step promotes every item of the list
\* whose directory is complete.
C29_PromotesExactlyComplete ==
    [][\A h \in Hosts :
          (pc[h] \in UpdatePcs /\ StepOf(h))
          => /\ \A k \in Keys : \A i \in DOMAIN catalog[k] :
                   (catalog[k][i].can_archive = "0"
                    /\ catalog'[k][i].can_archive = "1")
                   => /\ catalog[k][i].progress = "done"
                      /\ checkDumpDir(dumpdir[k], getDumpFiles(k))
             /\ (pc[h] = "update" /\ pc'[h] = "step1")
                => \A k \in Keys :
                      Unpromoted(k) => k[2] \in lists'[h].cannotarc
             /\ (pc[h] = "step3" /\ pc'[h] = "step4")
                => \A k \in KeysOf(alldb[lists[h].db], lists[h].cannotarc) :
                      checkDumpDir(dumpdir[k], getDumpFiles(k))
                      => \A i \in DOMAIN catalog'[k] :
                            catalog'[k][i].can_archive = "1"]_vars

\* C30: the list of dumps in progress and the list of failed dumps hold
\* every stored item with that progress; step 2 and step 4 of update()
\* write the live progress to every row of every dump of their list whose
\* live progress differs from 'progress' and from 'error' respectively,
\* 'unknown' included, and no step of update() writes the progress of a
\* row whose stored progress equals the live one.
C30_ProgressRefreshed ==
    [][\A h \in Hosts :
          (pc[h] \in UpdatePcs /\ StepOf(h))
          => /\ (pc[h] = "update" /\ pc'[h] = "step1")
                => \A k \in Keys : \A i \in DOMAIN catalog[k] :
                      /\ catalog[k][i].progress = "progress"
                         => k[2] \in lists'[h].inprogress
                      /\ catalog[k][i].progress = "error"
                         => k[2] \in lists'[h].failed
             /\ (pc[h] = "step2" /\ pc'[h] = "step3")
                => \A k \in KeysOf(alldb[lists[h].db], lists[h].inprogress) :
                      liveprogress[k] # "progress"
                      => \A i \in DOMAIN catalog'[k] :
                            catalog'[k][i].progress = liveprogress[k]
             /\ (pc[h] = "step4" /\ pc'[h] = "step5")
                => \A k \in KeysOf(alldb[lists[h].db], lists[h].failed) :
                      liveprogress[k] # "error"
                      => \A i \in DOMAIN catalog'[k] :
                            catalog'[k][i].progress = liveprogress[k]
             /\ \A k \in Keys : \A i \in DOMAIN catalog[k] :
                   catalog'[k][i].progress # catalog[k][i].progress
                   => /\ catalog[k][i].progress # liveprogress[k]
                      /\ catalog'[k][i].progress = liveprogress[k]]_vars

\* The rows of snapshot (w1, 1).
Registered == \E r \in Rows(<<"w1", 1>>) : r.progress = "done"
Archivable == \E r \in Rows(<<"w1", 1>>) : r.can_archive = "1"
Archived == \E r \in Rows(<<"w1", 1>>) : r.is_archived = "1"
Checked == \E r \in Rows(<<"w1", 1>>) : r.is_archived = "1" /\ r.is_checked = "1"

\* C24: with no failure and every run of the schedule started again and
\* again, snapshot (w1, 1), done at the origin, complete in the mirror and
\* not in the catalog, gets a row with progress = done, then
\* can_archive = 1, then is_archived = 1, then is_checked = 1.
C24_ScenarioCompletes ==
    /\ <>Registered
    /\ Registered ~> Archivable
    /\ Archivable ~> Archived
    /\ Archived ~> Checked

\* C31: step 1 of an update pass that runs through inserts exactly one row
\* for every listed snapshot that has no row, with the live progress, all
\* flags 0 and claimed_by NULL, and leaves every snapshot that has a row
\* as it is.
C31_RegistersOnlyAbsent ==
    [][\A h \in Hosts :
          (pc[h] = "step1" /\ pc'[h] = "step2")
          => \A k \in Keys :
                IF k[2] \in lists[h].dumps /\ catalog[k] = <<>>
                THEN catalog'[k] =
                        <<Row(IF family = "dumps" THEN liveprogress[k] ELSE NoColumn,
                              "0", "0", "0", NULL)>>
                ELSE catalog'[k] = catalog[k]]_vars

\* Host h has just made an upload call of its archive run.
Uploads(h) == pc[h] = "upload" /\ Len(sent'[h]) = Len(sent[h]) + 1

\* C32 as the specification states it: of the upload calls of one archive
\* run exactly the first carries the metadata, and no call of a resumed
\* run on an item that has files at the backend carries it.
C32_MetadataOnlyForNewItem ==
    [][\A h \in Hosts :
          Uploads(h)
          => sent'[h][Len(sent'[h])][2]
                = (sent[h] = <<>> /\ ~(args[h].resume /\ iafiles[item[h]] # {}))]_vars

\* C32: of the upload calls of one archive run exactly the first carries
\* the metadata, whether the item has files at the backend or not: a
\* resumed run sends the metadata with its first call as well.
C32_MetadataWithFirstCall ==
    [][\A h \in Hosts :
          Uploads(h)
          => /\ sent'[h][Len(sent'[h])][2] = (sent[h] = <<>>)
             /\ \A i \in DOMAIN sent[h] : sent'[h][i] = sent[h][i]]_vars

\* C32 witness: a resumed run on an item with files at the backend has
\* made two upload calls, the first with metadata and the second without.
C32_Witness ==
    \E h \in Hosts :
        /\ args[h].resume /\ args[h].job = "archive"
        /\ Len(sent[h]) >= 2
        /\ sent[h][1][2] /\ ~sent[h][2][2]
        /\ iafiles[item[h]] \ {sent[h][i][1] : i \in DOMAIN sent[h]} # {}

\* The argument combinations of the explicit form, complete and incomplete,
\* for every job, and the drive loops.
ExplicitArgs ==
    {[NoArgs EXCEPT !.job = j, !.wiki = w, !.date = d] :
        j \in Jobs, w \in {NoWiki, "w1"}, d \in {NoDate, 1}}

\* execute() that dispatches on whatever wiki and date it was given.
ExecuteUnchecked(h, max, Args) ==
    /\ pc[h] \in {"idle", "raised", "ioerror", "killed"}
    /\ nruns < max
    /\ nruns' = nruns + 1
    /\ \E a \in Args :
        /\ args' = [args EXCEPT ![h] = a]
        /\ IF a.job = "update"
           THEN pc' = [pc EXCEPT ![h] = "update"] /\ item' = item
           ELSE IF continuous(a)
           THEN pc' = [pc EXCEPT ![h] = "loop"] /\ item' = item
           ELSE /\ pc' = [pc EXCEPT ![h] = "claim"]
                /\ item' = [item EXCEPT ![h] = <<a.wiki, a.date>>]
    /\ status' = [status EXCEPT ![h] = "None"]
    /\ UNCHANGED <<catalog, iafiles, dumpdir, envVars, archiveVars, lists>>

\* execute() with what it returns at once: after "Error: ... was given but
\* not the ...!" the process is over, status holds the False it returned
\* and args the arguments it was started with.
ExecuteReturning(h, max, Args) ==
    /\ pc[h] \in {"idle", "raised", "ioerror", "killed"}
    /\ nruns < max
    /\ nruns' = nruns + 1
    /\ \E a \in Args :
        /\ args' = [args EXCEPT ![h] = a]
        /\ IF a.job = "update"
           THEN /\ pc' = [pc EXCEPT ![h] = "update"]
                /\ status' = [status EXCEPT ![h] = "None"]
                /\ item' = item
           ELSE IF continuous(a)
           THEN /\ pc' = [pc EXCEPT ![h] = "loop"]
                /\ status' = [status EXCEPT ![h] = "None"]
                /\ item' = item
           ELSE IF a.wiki = NoWiki \/ a.date = NoDate
           THEN /\ pc' = [pc EXCEPT ![h] = "idle"]
                /\ status' = [status EXCEPT ![h] = "False"]
                /\ item' = item
           ELSE /\ pc' = [pc EXCEPT ![h] = "claim"]
                /\ status' = [status EXCEPT ![h] = "None"]
                /\ item' = [item EXCEPT ![h] = <<a.wiki, a.date>>]
    /\ UNCHANGED <<catalog, iafiles, dumpdir, envVars, archiveVars, lists>>

\* One process after the other on one host, started with the explicit form
\* of the arguments, on the catalog two update runs have filled.
NextArgs == ExecuteReturning("h1", MaxArgsRuns, ExplicitArgs) \/ Step("h1")

SpecArgs == InitCrash /\ [][NextArgs]_vars

\* Exactly one of wiki and date is given.
Partial(a) == (a.wiki = NoWiki) # (a.date = NoDate)
Starts(h) == nruns' = nruns + 1 /\ StepOf(h)

\* C33 as the specification states it: execute with a wiki and no date,
\* or a date and no wiki, returns False at once and writes nothing,
\* whatever the job; with both it dispatches once on that item and
\* selects nothing at random.
C33_PartialArgsRejected ==
    [][\A h \in Hosts :
          /\ (Starts(h) /\ Partial(args'[h]))
                => pc'[h] = "idle" /\ status'[h] = "False" /\ catalog' = catalog
          /\ (~continuous(args[h]) /\ ~Partial(args[h]) /\ StepOf(h))
                => pc'[h] \notin {"loop", "pick"} /\ item'[h] \in {item[h], NoItem}]_vars

\* C33: execute for the archive or the check job with a wiki and no date,
\* or a date and no wiki, returns False at once, claims nothing, runs no
\* pipeline and writes nothing; the update job runs update() whatever wiki
\* and date are; the archive or the check job with both dispatches once on
\* that item, selects nothing at random and ends after the dispatch.
C33_PartialArchiveOrCheckRejected ==
    [][\A h \in Hosts :
          /\ Starts(h)
                => /\ catalog' = catalog /\ iafiles' = iafiles
                   /\ IF args'[h].job = "update"
                      THEN pc'[h] = "update"
                      ELSE IF Partial(args'[h])
                      THEN pc'[h] = "idle" /\ status'[h] = "False" /\ item'[h] = item[h]
                      ELSE IF continuous(args'[h])
                      THEN pc'[h] = "loop"
                      ELSE pc'[h] = "claim" /\ item'[h] = <<args'[h].wiki, args'[h].date>>
          /\ (args[h].job # "update" /\ ~continuous(args[h]) /\ ~Partial(args[h])
                /\ StepOf(h) /\ ~Starts(h))
                => /\ pc'[h] \notin {"loop", "pick", "claim"}
                   /\ item'[h] \in {item[h], NoItem}
                   /\ pc[h] = "mark" => pc'[h] = "idle"]_vars

\* C33 witness: the last run, a check started with exactly one of wiki and
\* date, has returned False.
C33_Witness ==
    /\ pc["h1"] = "idle" /\ status["h1"] = "False"
    /\ args["h1"].job = "check" /\ Partial(args["h1"])
    /\ nruns = MaxArgsRuns

\* C34: every iteration of a drive loop whose pipeline returns strictly
\* decreases the number of eligible items, in normal and in debug mode,
\* for the archive and the check job: the claim of the iteration takes the
\* item out of the count and the mark does not put any back, so the loop
\* ends after finitely many dispatches.
C34_IterationDecreasesEligible ==
    [][\A h \in Hosts :
          (DriveLoop(h) /\ StepOf(h))
          => /\ (pc[h] = "claim" /\ pc'[h] = args[h].job)
                   => getItemsLeft(catalog', args[h].job)
                         < getItemsLeft(catalog, args[h].job)
             /\ (pc[h] = "mark" /\ pc'[h] = "loop")
                   => getItemsLeft(catalog', args[h].job)
                         <= getItemsLeft(catalog, args[h].job)]_vars

\* Drive loops and update runs alone: no process is started on an explicit
\* item.
LoopArgs == {[NoArgs EXCEPT !.job = j] : j \in Jobs}

\* Workers of the dumps family on all hosts run drive loops and update
\* runs, interleaved statement by statement, on the catalog the first
\* update run left.
NextLoops ==
    \E h \in Hosts :
        \/ ExecuteUpTo(h, MaxLoopRuns, LoopArgs)
        \/ ItemsLeft(h)
        \/ RandomItem(h)
        \/ Claim(h)
        \/ DumpsArchive(h)
        \/ Upload(h)
        \/ Check(h)
        \/ Release(h)
        \/ UpdateQuery(h)
        \/ UpdateStep1(h)
        \/ UpdateStep2(h)
        \/ UpdateStep3(h)
        \/ UpdateStep4(h)
        \/ UpdateStep5(h)
        \/ UpdateFails(h)

SpecLoops == InitMirror /\ [][NextLoops]_vars

\* C35: no step of a drive loop or of an update run changes the
\* is_archived of a row that has is_archived = 1.
C35_ArchivedStaysArchived ==
    [][\A k \in Keys : \A i \in DOMAIN catalog[k] :
          catalog[k][i].is_archived = "1" => catalog'[k][i].is_archived = "1"]_vars

\* C36: in every state drive loops and update runs reach, a row with
\* is_checked = 1 or is_checked = 2 has is_archived = 1.
C36_CheckedIsArchived ==
    \A k \in Keys : \A i \in DOMAIN catalog[k] :
        catalog[k][i].is_checked \in {"1", "2"} => catalog[k][i].is_archived = "1"

\* C37: no step of a dispatch started on an explicit item changes a
\* claimed_by that holds another host's name, neither the claim at its
\* start nor the mark at its end.
C37_ForeignClaimKept ==
    [][\A h \in Hosts :
          (~continuous(args[h]) /\ args[h].job # "update"
             /\ pc[h] \in {"claim", "mark"} /\ StepOf(h))
          => \A i \in DOMAIN catalog[item[h]] :
                catalog[item[h]][i].claimed_by \notin {NULL, h}
                   => catalog'[item[h]][i].claimed_by
                         = catalog[item[h]][i].claimed_by]_vars

\* C38: no step of an update run changes claimed_by, is_archived or
\* is_checked of a row that is in the catalog, and none removes a row: the
\* run only appends rows and writes progress and can_archive.
C38_UpdateWritesOnlyItsColumns ==
    [][\A h \in Hosts :
          (pc[h] \in UpdatePcs /\ StepOf(h))
          => \A k \in Keys :
                /\ Len(catalog'[k]) >= Len(catalog[k])
                /\ \A i \in DOMAIN catalog[k] :
                      /\ catalog'[k][i].claimed_by = catalog[k][i].claimed_by
                      /\ catalog'[k][i].is_archived = catalog[k][i].is_archived
                      /\ catalog'[k][i].is_checked = catalog[k][i].is_checked]_vars

\* C38 witness: an update run has gone through its first three steps while
\* the catalog holds a row another host has claimed, an archived row and a
\* checked row.
C38_Witness ==
    \E h \in Hosts :
        /\ pc[h] \in {"step4", "step5"}
        /\ \E k \in Keys : \E r \in Rows(k) : r.claimed_by \notin {NULL, h}
        /\ \E k \in Keys : \E r \in Rows(k) : r.is_archived = "1"
        /\ \E k \in Keys : \E r \in Rows(k) : r.is_checked \in {"1", "2"}

\* C39: in the dumps family every row with can_archive = 1 has
\* progress = done, and no step of an update run changes the progress of
\* a row whose progress is done.
C39_ArchivableIsDone ==
    /\ [](family = "dumps"
            => \A k \in Keys : \A r \in Rows(k) :
                  r.can_archive = "1" => r.progress = "done")
    /\ [][\A h \in Hosts :
            (family = "dumps" /\ pc[h] \in UpdatePcs /\ StepOf(h))
            => \A k \in Keys : \A i \in DOMAIN catalog[k] :
                  catalog[k][i].progress = "done"
                     => catalog'[k][i].progress = "done"]_vars

\* One host of the dumps family runs drive loops and update runs, one after
\* the other, while the dump runs at the origin move on between them.
NextPick ==
    \/ ExecuteUpTo("h1", MaxPickRuns, LoopArgs)
    \/ ItemsLeft("h1")
    \/ RandomItem("h1")
    \/ Claim("h1")
    \/ DumpsArchive("h1")
    \/ Upload("h1")
    \/ Check("h1")
    \/ Release("h1")
    \/ UpdateQuery("h1")
    \/ UpdateStep1("h1")
    \/ UpdateStep2("h1")
    \/ UpdateStep3("h1")
    \/ UpdateStep4("h1")
    \/ UpdateStep5("h1")
    \/ \E k \in Keys : OriginMoves(k)

SpecPick == InitMirror /\ [][NextPick]_vars

\* The rows the count of getItemsLeft counts and the rows the select of
\* getRandomItemSql can return, for a job.
Counted(job) ==
    {<<k, i>> \in Keys \X (1..MaxRows) :
        i \in DOMAIN catalog[k] /\ ItemsLeftConds(job, catalog[k][i])}
Candidates(job) ==
    {<<k, i>> \in Keys \X (1..MaxRows) :
        i \in DOMAIN catalog[k] /\ RandomItemConds(job = "check", catalog[k][i])}

\* C40 as the specification states it: for the archive and for the check
\* job the count is positive exactly when the random select has a
\* candidate row, and every candidate row is a row the count counts.
C40_SamePredicate ==
    \A job \in {"archive", "check"} :
        /\ (getItemsLeft(catalog, job) > 0) = (Candidates(job) # {})
        /\ Candidates(job) \subseteq Counted(job)

\* C40: every row the count counts is a candidate of the random select, so
\* a positive count means there is a candidate; for the archive job, and
\* for the check job of the wikidata family, the candidates are exactly
\* the counted rows; for the check job of the dumps family the candidates
\* are the counted rows and the unclaimed, archived, unchecked rows whose
\* progress is not done, which the count leaves out.
C40_CountedAreCandidates ==
    \A job \in {"archive", "check"} :
        /\ getItemsLeft(catalog, job) = Cardinality(Counted(job))
        /\ Counted(job) \subseteq Candidates(job)
        /\ getItemsLeft(catalog, job) > 0 => getRandomItem(catalog, job) # {NoItem}
        /\ (job = "archive" \/ family = "wikidata") => Candidates(job) = Counted(job)
        /\ family = "dumps"
              => Candidates(job) \ Counted(job)
                    = {c \in Candidates(job) : catalog[c[1]][c[2]].progress # "done"}

\* C40 witness: a check drive loop has counted an item and is about to
\* pick one while the catalog holds a candidate the count left out.
C40_Witness ==
    \E h \in Hosts :
        /\ pc[h] = "pick" /\ args[h].job = "check"
        /\ Candidates("check") \ Counted("check") # {}
====
